---- MODULE Spec2Model ----
(***************************************************************************)
(* Model of the SEO manifest tools:                                        *)
(*   tools/validate_seo_manifest.py  (the Validator, specification Spec)   *)
(*   tools/build_seo_manifest.py     (the Extractor, specification         *)
(*                                    SpecBuild)                           *)
(* Python strings are TLA+ strings (TLC treats a string as a sequence of   *)
(* one-character strings: Len, SubSeq and \o apply).  Python values read   *)
(* from JSON are tagged records: [jt |-> "null"], [jt |-> "str", s |-> _], *)
(* [jt |-> "num", n |-> _], [jt |-> "arr", a |-> <<...>>] and              *)
(* [jt |-> "obj", f |-> [key |-> value]].                                  *)
(***************************************************************************)
EXTENDS Integers, Sequences, FiniteSets, TLC

VARIABLES
  \* ---- validate_seo_manifest.py: main() and iter_ndjson() ----
  pc,           \* "loop" (in the for loop), "done" (summary printed), "aborted" (exception left main)
  line_num,     \* enumerate(f, start=1): number of lines read from the manifest so far
  consumed,     \* the lines of the manifest read so far (indices into ManifestLines)
  issues,       \* main: issues
  seen_paths,   \* main: seen_paths
  page_count,   \* main: page_count
  out,          \* what main printed: <<>> or <<[summary |-> ..., issues |-> ...]>>
  \* ---- build_seo_manifest.py: make_page_object() ----
  bpc,          \* position in make_page_object
  parts,        \* the fragments of markup the file is made of, in order
  html,         \* read_file_safe(file_path)
  site_domain,  \* the site_domain argument
  title,        \* 'title' of the page object
  metas,        \* extract_metas(html)
  links,        \* extract_links(html)
  internal_links, external_links,   \* indices into links (the lists hold the link objects themselves)
  li,           \* number of links the classification loop has handled
  stripped,     \* strip_tags(html)
  restripped    \* strip_tags(strip_tags(html))

vvars == <<pc, line_num, consumed, issues, seen_paths, page_count, out>>
bvars == <<bpc, parts, html, site_domain, title, metas, links, internal_links,
           external_links, li, stripped, restripped>>
vars == <<vvars, bvars>>

(***************************************************************************)
(* Bounds of the model.                                                    *)
(***************************************************************************)
MaxLines == 3      \* lines of a manifest
BulkImages == 50   \* images of the largest page record
MaxLinks == 2      \* anchors of a file with several links
MaxTags == 2       \* meta/link tags of a file's head
MaxPieces == 2     \* pieces of a text fragment

(***************************************************************************)
(* Python str methods.                                                     *)
(***************************************************************************)
At(s, i) == SubSeq(s, i, i)

UpperAlpha == "ABCDEFGHIJKLMNOPQRSTUVWXYZ"
LowerAlpha == "abcdefghijklmnopqrstuvwxyz"

Uppers == {At(UpperAlpha, i) : i \in 1..Len(UpperAlpha)}
Lowers == {At(LowerAlpha, i) : i \in 1..Len(LowerAlpha)}

LowerOf == [c \in Uppers |->
              At(LowerAlpha, CHOOSE i \in 1..Len(UpperAlpha) : At(UpperAlpha, i) = c)]

LowerChar(c) == IF c \in Uppers THEN LowerOf[c] ELSE c

\* s.lower()
RECURSIVE Lower(_)
Lower(s) ==
  IF Len(s) = 0 THEN ""
  ELSE IF Len(s) = 1 THEN LowerChar(s)
  ELSE LET mid == Len(s) \div 2
       IN  Lower(SubSeq(s, 1, mid)) \o Lower(SubSeq(s, mid + 1, Len(s)))

\* U+00A0 (no-break space); TLA+ strings are ASCII, "~" stands for it and
\* occurs in no input otherwise.
NBSP == "~"

\* str.isspace() / the regex class \s on str patterns (Unicode whitespace).
Whitespace == {" ", "\t", "\n", "\r", "\f", NBSP}

RECURSIVE LStrip(_)
LStrip(s) == IF s # "" /\ Head(s) \in Whitespace THEN LStrip(Tail(s)) ELSE s

RECURSIVE RStrip(_)
RStrip(s) ==
  IF s # "" /\ At(s, Len(s)) \in Whitespace
    THEN RStrip(SubSeq(s, 1, Len(s) - 1))
    ELSE s

Strip(s) == RStrip(LStrip(s))

StartsWith(s, p) == Len(s) >= Len(p) /\ SubSeq(s, 1, Len(p)) = p

StartsWithAny(s, ps) == \E p \in ps : StartsWith(s, p)

\* sub in s
Contains(s, sub) ==
  \E i \in 1..(Len(s) - Len(sub) + 1) : SubSeq(s, i, i + Len(sub) - 1) = sub

Digits == "0123456789"

\* str(n) for n >= 0, as an f-string renders an int
RECURSIVE Dec(_)
Dec(n) ==
  IF n < 10 THEN At(Digits, n + 1)
  ELSE Dec(n \div 10) \o At(Digits, (n % 10) + 1)

RECURSIVE Repeat(_, _)
Repeat(s, n) ==
  IF n = 0 THEN ""
  ELSE IF n = 1 THEN s
  ELSE Repeat(s, n \div 2) \o Repeat(s, n - n \div 2)

(***************************************************************************)
(* Python values.                                                          *)
(***************************************************************************)
PyNone == [jt |-> "null"]
Str(s) == [jt |-> "str", s |-> s]
Num(n) == [jt |-> "num", n |-> n]
Arr(a) == [jt |-> "arr", a |-> a]
Obj(f) == [jt |-> "obj", f |-> f]
EmptyObj == Obj(<<>>)

IsStr(v) == v.jt = "str"
IsObj(v) == v.jt = "obj"

\* bool(v)
Truthy(v) ==
  CASE v.jt = "null" -> FALSE
    [] v.jt = "str"  -> v.s # ""
    [] v.jt = "num"  -> v.n # 0
    [] v.jt = "arr"  -> v.a # <<>>
    [] v.jt = "obj"  -> DOMAIN v.f # {}

\* key in d, d.get(key, default), for a dict d
HasKey(d, key) == key \in DOMAIN d.f
Get(d, key, default) == IF HasKey(d, key) THEN d.f[key] ELSE default

\* v == 'text'
EqStr(v, text) == IsStr(v) /\ v.s = text

\* f'{v}'
Fmt(v) ==
  CASE v.jt = "null" -> "None"
    [] v.jt = "str"  -> v.s
    [] v.jt = "num"  -> Dec(v.n)

(***************************************************************************)
(* validate_seo_manifest.py                                                *)
(***************************************************************************)

\* The lines a manifest may hold.  text is the line as read from the file,
\* val is <<json.loads(text.strip())>>, or <<>> where json.loads raises
\* JSONDecodeError with message err (or the line is blank).
ManifestLines == <<
  \* 1
  [text |-> " ",
   val |-> <<>>,
   err |-> ""],
  \* 2
  [text |-> "{oops",
   val |-> <<>>,
   err |-> "Expecting property name enclosed in double quotes: line 1 column 2 (char 1)"],
  \* 3
  [text |-> "[]",
   val |-> <<Arr(<<>>)>>,
   err |-> ""],
  \* 4
  [text |-> "null",
   val |-> <<PyNone>>,
   err |-> ""],
  \* 5
  [text |-> "\"__error__\"",
   val |-> <<Str("__error__")>>,
   err |-> ""],
  \* 6
  [text |-> "{\"type\":\"site\",\"domain\":\"stroyglobal.com\"}",
   val |-> <<Obj("type" :> Str("site") @@ "domain" :> Str("stroyglobal.com"))>>,
   err |-> ""],
  \* 7
  [text |-> "{\"type\":\"site\"}",
   val |-> <<Obj("type" :> Str("site"))>>,
   err |-> ""],
  \* 8
  [text |-> "{\"type\":\"robotsTxt\",\"path\":\"/robots.txt\",\"content\":\"User-agent: *\"}",
   val |-> <<Obj("type" :> Str("robotsTxt") @@ "path" :> Str("/robots.txt") @@ "content" :> Str("User-agent: *"))>>,
   err |-> ""],
  \* 9
  [text |-> "{\"type\":\"sitemapXml\",\"path\":\"/sitemap.xml\",\"content\":\"\"}",
   val |-> <<Obj("type" :> Str("sitemapXml") @@ "path" :> Str("/sitemap.xml") @@ "content" :> Str(""))>>,
   err |-> ""],
  \* 10
  [text |-> "{\"type\":\"feed\"}",
   val |-> <<Obj("type" :> Str("feed"))>>,
   err |-> ""],
  \* 11
  [text |-> "{}",
   val |-> <<EmptyObj>>,
   err |-> ""],
  \* 12
  [text |-> "{\"type\":\"page\",\"path\":\"/a.htm\",\"meta\":{\"charset\":\"utf-8\"},\"images\":[{\"src\":\"a.jpg\"}],\"__error__\":\"x\"}",
   val |-> <<Obj("type" :> Str("page") @@ "path" :> Str("/a.htm") @@ "meta" :> Obj("charset" :> Str("utf-8")) @@ "images" :> Arr(<<Obj("src" :> Str("a.jpg"))>>) @@ "__error__" :> Str("x"))>>,
   err |-> ""],
  \* 13
  [text |-> "{\"type\":\"page\",\"path\":\"/a.htm\",\"meta\":{\"charset\":\"utf-8\"},\"internalLinks\":[{\"href\":\"/b.htm\"}],\"externalLinks\":[{\"href\":\"https://other.com\"}],\"images\":[{\"src\":\"a.jpg\",\"alt\":\"logo\"}]}",
   val |-> <<Obj("type" :> Str("page") @@ "path" :> Str("/a.htm") @@ "meta" :> Obj("charset" :> Str("utf-8")) @@ "internalLinks" :> Arr(<<Obj("href" :> Str("/b.htm"))>>) @@ "externalLinks" :> Arr(<<Obj("href" :> Str("https://other.com"))>>) @@ "images" :> Arr(<<Obj("src" :> Str("a.jpg") @@ "alt" :> Str("logo"))>>))>>,
   err |-> ""],
  \* 14
  [text |-> "{\"type\":\"page\",\"path\":\"/a.htm\",\"meta\":{\"charset\":\"UTF8\"},\"internalLinks\":[{\"href\":\" \"}],\"externalLinks\":[{\"href\":\"\"}],\"images\":[{\"src\":\"a.jpg\"},{},{\"src\":\" \",\"alt\":\"x\"}]}",
   val |-> <<Obj("type" :> Str("page") @@ "path" :> Str("/a.htm") @@ "meta" :> Obj("charset" :> Str("UTF8")) @@ "internalLinks" :> Arr(<<Obj("href" :> Str(" "))>>) @@ "externalLinks" :> Arr(<<Obj("href" :> Str(""))>>) @@ "images" :> Arr(<<Obj("src" :> Str("a.jpg")), EmptyObj, Obj("src" :> Str(" ") @@ "alt" :> Str("x"))>>))>>,
   err |-> ""],
  \* 15
  [text |-> "{\"type\":\"page\",\"path\":\"/b.htm\",\"meta\":{\"charset\":\"windows-1251\"},\"internalLinks\":[{\"href\":\"HTTP://stroyglobal.com/\"}]}",
   val |-> <<Obj("type" :> Str("page") @@ "path" :> Str("/b.htm") @@ "meta" :> Obj("charset" :> Str("windows-1251")) @@ "internalLinks" :> Arr(<<Obj("href" :> Str("HTTP://stroyglobal.com/"))>>))>>,
   err |-> ""],
  \* 16
  [text |-> "{\"type\":\"page\",\"path\":\"b.htm\",\"meta\":{\"charset\":\"utf-8\"}}",
   val |-> <<Obj("type" :> Str("page") @@ "path" :> Str("b.htm") @@ "meta" :> Obj("charset" :> Str("utf-8")))>>,
   err |-> ""],
  \* 17
  [text |-> "{\"type\":\"page\",\"path\":\"b.htm\",\"meta\":{\"charset\":\"utf-8\"},\"internalLinks\":[{\"href\":\"//stroyglobal.com/\"}]}",
   val |-> <<Obj("type" :> Str("page") @@ "path" :> Str("b.htm") @@ "meta" :> Obj("charset" :> Str("utf-8")) @@ "internalLinks" :> Arr(<<Obj("href" :> Str("//stroyglobal.com/"))>>))>>,
   err |-> ""],
  \* 18
  [text |-> "{\"type\":\"page\"}",
   val |-> <<Obj("type" :> Str("page"))>>,
   err |-> ""],
  \* 19
  [text |-> "{\"type\":\"page\",\"path\":null}",
   val |-> <<Obj("type" :> Str("page") @@ "path" :> PyNone)>>,
   err |-> ""],
  \* 20
  [text |-> "{\"type\":\"page\",\"path\":\"/a.htm\",\"meta\":null}",
   val |-> <<Obj("type" :> Str("page") @@ "path" :> Str("/a.htm") @@ "meta" :> PyNone)>>,
   err |-> ""],
  \* 21
  [text |-> "{\"type\":\"page\",\"path\":\"/a.htm\",\"meta\":{\"charset\":\"utf-8\"},\"internalLinks\":null}",
   val |-> <<Obj("type" :> Str("page") @@ "path" :> Str("/a.htm") @@ "meta" :> Obj("charset" :> Str("utf-8")) @@ "internalLinks" :> PyNone)>>,
   err |-> ""],
  \* 22
  [text |-> "{\"type\":\"page\",\"path\":\"/a.htm\",\"meta\":{\"charset\":\"utf-8\"},\"images\":[{\"src\":\"\",\"alt\":\"\"},{\"src\":5}]}",
   val |-> <<Obj("type" :> Str("page") @@ "path" :> Str("/a.htm") @@ "meta" :> Obj("charset" :> Str("utf-8")) @@ "images" :> Arr(<<Obj("src" :> Str("") @@ "alt" :> Str("")), Obj("src" :> Num(5))>>))>>,
   err |-> ""],
  \* 23: a page with BulkImages images that have neither src nor alt
  [text |-> "{\"type\":\"page\",\"path\":\"/bulk.htm\",\"meta\":{\"charset\":\"utf-8\"},\"images\":[{}"
              \o Repeat(",{}", BulkImages - 1) \o "]}",
   val |-> <<Obj("type" :> Str("page") @@ "path" :> Str("/bulk.htm")
                 @@ "meta" :> Obj("charset" :> Str("utf-8"))
                 @@ "images" :> Arr([i \in 1..BulkImages |-> EmptyObj]))>>,
   err |-> ""]
>>

\* json.loads(line): <<value>>, or <<>> when it raises JSONDecodeError
json_loads(row) == row.val

\* iter_ndjson with the line counter starting at 0 (enumerate's default)
iter_ndjson_from0(n, row) ==
  IF Strip(row.text) = "" THEN <<>>
  ELSE IF json_loads(row) # <<>> THEN json_loads(row)
  ELSE <<Obj("__error__" :> Str("JSON parse error at line " \o Dec(n - 1) \o ": " \o row.err))>>

\* What iter_ndjson yields for the line numbered n: <<>> for a blank line
\* (continue), else <<obj>>.
iter_ndjson(n, row) ==
  IF Strip(row.text) = "" THEN <<>>
  ELSE IF json_loads(row) # <<>> THEN json_loads(row)
  ELSE <<Obj("__error__" :> Str("JSON parse error at line " \o Dec(n) \o ": " \o row.err))>>

is_abs_url(href) == StartsWithAny(Lower(href), {"http://", "https://", "//"})

\* main's locals while one line is handled; raised: an exception is propagating.
Locals == [issues |-> issues, seen_paths |-> seen_paths,
           page_count |-> page_count, raised |-> FALSE]

\* issues.append(text)
Add(st, text) == [st EXCEPT !.issues = Append(@, Str(text))]

Raise(st) == [st EXCEPT !.raised = TRUE]

Line(ln) == "Line " \o Dec(ln)

\* What a for loop over v visits; only "arr", "str" and "obj" values are iterable.
Iterable(v) == v.jt \in {"arr", "str", "obj"}
Items(v) ==
  CASE v.jt = "arr" -> v.a
    [] v.jt = "str" -> [i \in 1..Len(v.s) |-> Str(At(v.s, i))]
    [] v.jt = "obj" -> IF DOMAIN v.f = {} THEN <<>>
                       ELSE <<Str(CHOOSE k \in DOMAIN v.f : TRUE)>>

\* (d.get(key) or ''), before .strip() is called on it
GetOrEmpty(d, key) ==
  LET v == Get(d, key, PyNone) IN IF Truthy(v) THEN v ELSE Str("")

\* obj.get('path', '').split('/')[1] raises IndexError
SplitIndexError(obj) == ~Contains(Get(obj, "path", Str("")).s, "/")

\* the duplicate check with seen_paths.add(path) moved before it
CheckPathAddFirst(st, ln, path) ==
  LET s1 == IF ~StartsWith(path, "/")
              THEN Add(st, Line(ln) \o ": page.path must start with \"/\" -> " \o path)
              ELSE st
      s2 == [s1 EXCEPT !.seen_paths = @ \cup {path}]
  IN  IF path \in s2.seen_paths
        THEN Add(s2, Line(ln) \o ": duplicate page.path " \o path)
        ELSE s2

\* main, lines 48-52
CheckPath(st, ln, path) ==
  LET s1 == IF ~StartsWith(path, "/")
              THEN Add(st, Line(ln) \o ": page.path must start with \"/\" -> " \o path)
              ELSE st
      s2 == IF path \in s1.seen_paths
              THEN Add(s1, Line(ln) \o ": duplicate page.path " \o path)
              ELSE s1
  IN  [s2 EXCEPT !.seen_paths = @ \cup {path}]

\* A loop over items, each handled by an outcome [raised, issues]: the issues of
\* the items before the first that raises, and what that one appended before
\* raising.
RECURSIVE Concat(_, _, _)
Concat(outs, lo, hi) ==
  IF lo > hi THEN <<>>
  ELSE IF lo = hi THEN outs[lo].issues
  ELSE LET mid == (lo + hi) \div 2
       IN  Concat(outs, lo, mid) \o Concat(outs, mid + 1, hi)

ForEach(st, outs) ==
  LET bad  == {i \in 1..Len(outs) : outs[i].raised}
      last == IF bad = {} THEN Len(outs)
              ELSE CHOOSE i \in bad : \A j \in bad : i <= j
  IN  [st EXCEPT !.issues = @ \o Concat(outs, 1, last),
                 !.raised = bad # {}]

Outcome(raised, texts) ==
  [raised |-> raised, issues |-> [i \in 1..Len(texts) |-> Str(texts[i])]]

\* main, lines 58-64: one internal link
InternalLink(ln, obj, path, link) ==
  IF ~IsObj(link) THEN Outcome(TRUE, <<>>)                     \* link.get
  ELSE LET v == GetOrEmpty(link, "href") IN
    IF ~IsStr(v) THEN Outcome(TRUE, <<>>)                      \* .strip()
    ELSE LET href == Strip(v.s)
             t == IF href = ""
                    THEN <<Line(ln) \o ": empty internal href at " \o path>>
                    ELSE <<>>
         IN  Outcome(is_abs_url(href) /\ SplitIndexError(obj), t)

\* main, lines 66-68: one external link
ExternalLink(ln, path, link) ==
  IF ~IsObj(link) THEN Outcome(TRUE, <<>>)
  ELSE LET v == GetOrEmpty(link, "href") IN
    IF ~IsStr(v) THEN Outcome(TRUE, <<>>)
    ELSE Outcome(FALSE, IF Strip(v.s) = ""
                          THEN <<Line(ln) \o ": empty external href at " \o path>>
                          ELSE <<>>)

\* main, lines 71-77: one image
Image(ln, path, img) ==
  IF ~IsObj(img) THEN Outcome(TRUE, <<>>)
  ELSE LET sv == GetOrEmpty(img, "src") IN
    IF ~IsStr(sv) THEN Outcome(TRUE, <<>>)
    ELSE LET src == Strip(sv.s)
             t1  == IF src = ""
                      THEN <<Line(ln) \o ": empty image src at " \o path>>
                      ELSE <<>>
             av  == GetOrEmpty(img, "alt")
         IN  IF ~IsStr(av) THEN Outcome(TRUE, t1)
             ELSE Outcome(FALSE,
                    IF Strip(av.s) = ""
                      THEN Append(t1, Line(ln) \o ": missing alt for image "
                                        \o src \o " at " \o path)
                      ELSE t1)

\* main, lines 46-77: the page branch, from main's locals st
CheckPage(st, ln, obj) ==
  LET s1 == [st EXCEPT !.page_count = @ + 1]
      pv == Get(obj, "path", Str(""))
  IN
  IF ~IsStr(pv) THEN Raise(s1)                       \* path.startswith
  ELSE
  LET path == pv.s
      s2   == CheckPath(s1, ln, path)
      meta == Get(obj, "meta", EmptyObj)
  IN
  IF ~IsObj(meta) THEN Raise(s2)                     \* meta.get
  ELSE
  LET cs == Get(meta, "charset", Str("")) IN
  IF ~IsStr(cs) THEN Raise(s2)                       \* .lower()
  ELSE
  LET s3 == IF Lower(cs.s) \notin {"utf-8", "utf8"}
              THEN Add(s2, Line(ln) \o ": non-utf8 charset for " \o path)
              ELSE s2
      il == Get(obj, "internalLinks", Arr(<<>>))
  IN
  IF ~Iterable(il) THEN Raise(s3)
  ELSE
  LET s4 == ForEach(s3, [i \in 1..Len(Items(il)) |-> InternalLink(ln, obj, path, Items(il)[i])])
      el == Get(obj, "externalLinks", Arr(<<>>))
  IN
  IF s4.raised THEN s4
  ELSE IF ~Iterable(el) THEN Raise(s4)
  ELSE
  LET s5 == ForEach(s4, [i \in 1..Len(Items(el)) |-> ExternalLink(ln, path, Items(el)[i])])
      im == Get(obj, "images", Arr(<<>>))
  IN
  IF s5.raised THEN s5
  ELSE IF ~Iterable(im) THEN Raise(s5)
  ELSE ForEach(s5, [i \in 1..Len(Items(im)) |-> Image(ln, path, Items(im)[i])])

IssueCap == 200

\* issues[:200]
FirstIssues(iss) == SubSeq(iss, 1, IF Len(iss) < IssueCap THEN Len(iss) ELSE IssueCap)

\* the summary with the number of the issues printed instead of all of them
SummaryOfPrinted(iss, seen, count) ==
  [pages |-> count, uniquePaths |-> Cardinality(seen),
   issuesCount |-> Len(FirstIssues(iss))]

\* main, lines 81-85
Summary(iss, seen, count) ==
  [pages |-> count, uniquePaths |-> Cardinality(seen), issuesCount |-> Len(iss)]

(***************************************************************************)
(* The Validator's steps: one iteration of `for ln, obj in iter_ndjson`,   *)
(* by the branch of main it takes, and the final print.                    *)
(***************************************************************************)
CanRead == pc = "loop" /\ Len(consumed) < MaxLines

\* The line r is read: the counter and the file position advance.
ReadLine(r) ==
  /\ line_num' = line_num + 1
  /\ consumed' = Append(consumed, r)

Yield(r) == iter_ndjson(line_num + 1, ManifestLines[r])

\* obj is a dict without the '__error__' key whose 'type' is typ
Dispatch(r) ==
  LET y == Yield(r) IN
  IF y = <<>> THEN "blank"
  ELSE IF ~IsObj(y[1]) THEN "notdict"
  ELSE IF HasKey(y[1], "__error__") THEN "error"
  ELSE LET typ == Get(y[1], "type", PyNone) IN
       IF EqStr(typ, "site") THEN "site"
       ELSE IF EqStr(typ, "robotsTxt") \/ EqStr(typ, "sitemapXml") THEN "content"
       ELSE IF EqStr(typ, "page") THEN "page"
       ELSE "unknown"

Commit(st) ==
  /\ issues' = st.issues
  /\ seen_paths' = st.seen_paths
  /\ page_count' = st.page_count
  /\ pc' = IF st.raised THEN "aborted" ELSE "loop"

\* iter_ndjson, lines 14-16: a blank line is skipped
SkipBlank(r) ==
  /\ CanRead /\ Dispatch(r) = "blank"
  /\ ReadLine(r)
  /\ UNCHANGED <<pc, issues, seen_paths, page_count, out>>
  /\ UNCHANGED bvars

\* main, line 32 on a value that is not a dict: TypeError or AttributeError
NotADict(r) ==
  /\ CanRead /\ Dispatch(r) = "notdict"
  /\ ReadLine(r)
  /\ Commit(Raise(Locals))
  /\ UNCHANGED <<out, bvars>>

\* main, lines 32-34
AppendError(r) ==
  /\ CanRead /\ Dispatch(r) = "error"
  /\ ReadLine(r)
  /\ Commit([Locals EXCEPT !.issues = Append(@, Yield(r)[1].f["__error__"])])
  /\ UNCHANGED <<out, bvars>>

\* main, lines 36-40
ValidateSite(r) ==
  /\ CanRead /\ Dispatch(r) = "site"
  /\ ReadLine(r)
  /\ Commit(IF ~Truthy(Get(Yield(r)[1], "domain", PyNone))
              THEN Add(Locals, Line(line_num + 1) \o ": site.domain missing")
              ELSE Locals)
  /\ UNCHANGED <<out, bvars>>

\* main, lines 41-44
ValidateContent(r) ==
  /\ CanRead /\ Dispatch(r) = "content"
  /\ ReadLine(r)
  /\ Commit(IF ~Truthy(Get(Yield(r)[1], "content", PyNone))
              THEN Add(Locals, Line(line_num + 1) \o ": "
                                 \o Fmt(Get(Yield(r)[1], "type", PyNone)) \o ".content empty")
              ELSE Locals)
  /\ UNCHANGED <<out, bvars>>

\* main, lines 45-78, when no exception is raised
ValidatePage(r) ==
  /\ CanRead /\ Dispatch(r) = "page"
  /\ LET st == CheckPage(Locals, line_num + 1, Yield(r)[1]) IN
       /\ ~st.raised
       /\ Commit(st)
  /\ ReadLine(r)
  /\ UNCHANGED <<out, bvars>>

\* main, lines 45-78, when an exception leaves the page branch
PageRaises(r) ==
  /\ CanRead /\ Dispatch(r) = "page"
  /\ LET st == CheckPage(Locals, line_num + 1, Yield(r)[1]) IN
       /\ st.raised
       /\ Commit(st)
  /\ ReadLine(r)
  /\ UNCHANGED <<out, bvars>>

\* main, line 79
UnknownType(r) ==
  /\ CanRead /\ Dispatch(r) = "unknown"
  /\ ReadLine(r)
  /\ Commit(Add(Locals, Line(line_num + 1) \o ": unknown type "
                          \o Fmt(Get(Yield(r)[1], "type", PyNone))))
  /\ UNCHANGED <<out, bvars>>

\* main, lines 81-86: the file ended, the report is printed
PrintSummary ==
  /\ pc = "loop"
  /\ out' = <<[summary |-> Summary(issues, seen_paths, page_count),
               issues |-> FirstIssues(issues)]>>
  /\ pc' = "done"
  /\ UNCHANGED <<line_num, consumed, issues, seen_paths, page_count, bvars>>

(***************************************************************************)
(* Module re, for the patterns the tools use: a pattern is a sequence of   *)
(* literals, quantified character classes and group marks.  Quantifiers:   *)
(* "1", "?", "*", "+" (greedy) and "*?" (lazy).  Every pattern of the      *)
(* tools that holds a letter is compiled with re.IGNORECASE (or names both *)
(* cases in its class), so the matcher works on the lower-cased text sl,   *)
(* with the literals written in lower case; groups are cut from the text.  *)
(***************************************************************************)
Lit(t) == [t |-> "lit", s |-> t]
Cls(cs, q) == [t |-> "cls", neg |-> FALSE, cs |-> cs, q |-> q]
NotCls(cs, q) == [t |-> "cls", neg |-> TRUE, cs |-> cs, q |-> q]
Mark(k) == [t |-> "mark", id |-> k]

SetMin(S) == CHOOSE x \in S : \A y \in S : x <= y
SetMax(S) == CHOOSE x \in S : \A y \in S : x >= y

InCls(e, c) == (c \in e.cs) # e.neg

LitAt(lit, sl, i) ==
  /\ i + Len(lit) - 1 <= Len(sl)
  /\ SubSeq(sl, i, i + Len(lit) - 1) = lit

\* The first position at or after i whose character is not in the class of e
\* (Len(sl) + 1 when there is none).
Stop(e, sl, i) ==
  IF i > Len(sl) \/ ~InCls(e, At(sl, i)) THEN i
  ELSE LET B == {t \in (i + 1)..Len(sl) : ~InCls(e, At(sl, t))}
       IN  IF B = {} THEN Len(sl) + 1 ELSE SetMin(B)

\* The positions where element e, started at i, may end.
Ends(e, sl, i) ==
  CASE e.t = "lit"  -> IF LitAt(e.s, sl, i) THEN {i + Len(e.s)} ELSE {}
    [] e.t = "mark" -> {i}
    [] e.t = "cls"  ->
         LET stop == Stop(e, sl, i)
             lo   == IF e.q \in {"1", "+"} THEN i + 1 ELSE i
             hi   == IF e.q \in {"*", "+", "*?"} THEN stop
                     ELSE IF stop > i THEN i + 1 ELSE i
         IN  lo..hi

\* The set S with its elements enumerated (TLC keeps a set comprehension
\* unevaluated, and tests membership by evaluating its predicate again).
Elements(S) == {x : x \in S}

\* <<R[a], ..., R[b]>>, R[k] the positions where elements a..k of p may end,
\* started anywhere in S.
RECURSIVE Reach(_, _, _, _, _)
Reach(p, sl, a, b, S) ==
  IF a = b THEN <<Elements(UNION {Ends(p[a], sl, i) : i \in S})>>
  ELSE LET mid  == (a + b) \div 2
           left == Reach(p, sl, a, mid, S)
       IN  left \o Reach(p, sl, mid + 1, b, left[Len(left)])

\* <<F[a], ..., F[b]>>, F[k] the positions, among those elements 1..k-1 may end
\* at, from which elements k..b of p can match and end in T.
RECURSIVE FeasibleFrom(_, _, _, _, _, _)
FeasibleFrom(p, sl, R, a, b, T) ==
  IF T = {} THEN [k \in 1..(b - a + 1) |-> {}]
  ELSE IF a = b
    THEN <<Elements({i \in (IF a = 1 THEN 1..(Len(sl) + 1) ELSE R[a - 1]) :
                       Ends(p[a], sl, i) \cap T # {}})>>
  ELSE LET mid   == (a + b) \div 2
           right == FeasibleFrom(p, sl, R, mid + 1, b, T)
       IN  IF right[1] = {} THEN [k \in 1..(mid - a + 1) |-> {}] \o right
           ELSE FeasibleFrom(p, sl, R, a, mid, right[1]) \o right

\* <<F[1], ..., F[Len(p) + 1]>>: F[1] holds the positions where a match of p starts
Feasible(p, sl) ==
  LET R == Reach(p, sl, 1, Len(p), 1..(Len(sl) + 1))
  IN  FeasibleFrom(p, sl, R, 1, Len(p), R[Len(p)]) \o <<R[Len(p)]>>

\* The positions the backtracking matcher is at after each of the elements a..b,
\* started at i (in F[a]): each element takes the longest (lazy: the shortest)
\* stretch that lets the rest match.
RECURSIVE Walk(_, _, _, _, _, _)
Walk(p, sl, F, a, b, i) ==
  IF a = b
    THEN LET c == Ends(p[a], sl, i) \cap F[a + 1]
         IN  <<IF p[a].t = "cls" /\ p[a].q = "*?" THEN SetMin(c) ELSE SetMax(c)>>
  ELSE LET mid  == (a + b) \div 2
           left == Walk(p, sl, F, a, mid, i)
       IN  left \o Walk(p, sl, F, mid + 1, b, left[Len(left)])

\* The match that starts at i0: m holds the positions of the group marks.
Match(p, sl, F, i0) ==
  LET at == Walk(p, sl, F, 1, Len(p), i0)
      marked(g) == {k \in 1..Len(p) : p[k].t = "mark" /\ p[k].id = g}
  IN  [start |-> i0, end |-> at[Len(p)],
       m |-> [g \in 1..4 |-> IF marked(g) = {} THEN 0 ELSE at[SetMin(marked(g))]]]

\* The leftmost match at or after from: <<>> or <<[start, end, m]>>.
SearchFrom(p, sl, F, from) ==
  LET starts == {i \in F[1] : i >= from} IN
  IF starts = {} THEN <<>> ELSE <<Match(p, sl, F, SetMin(starts))>>

\* a search that returns the last match of the text instead of the first
re_search_last(p, s) ==
  LET sl == Lower(s)
      F  == Feasible(p, sl)
  IN  IF sl = "" \/ F[1] = {} THEN <<>> ELSE <<Match(p, sl, F, SetMax(F[1]))>>

\* re.search(p, s); no pattern of the tools matches the empty string
re_search(p, s) ==
  LET sl == Lower(s) IN
  IF sl = "" THEN <<>> ELSE SearchFrom(p, sl, Feasible(p, sl), 1)

\* m.group(g) for g = 1, 2; m.group(0)
Group(s, mt, g) == SubSeq(s, mt.m[2 * g - 1], mt.m[2 * g] - 1)
Group0(s, mt) == SubSeq(s, mt.start, mt.end - 1)

\* re.finditer(p, s): the matches, in order
RECURSIVE FindFrom(_, _, _, _)
FindFrom(p, sl, F, from) ==
  LET r == SearchFrom(p, sl, F, from) IN
  IF r = <<>> THEN <<>> ELSE r \o FindFrom(p, sl, F, r[1].end)

re_finditer(p, s) ==
  LET sl == Lower(s) IN
  IF sl = "" THEN <<>> ELSE FindFrom(p, sl, Feasible(p, sl), 1)

\* re.sub(p, repl, s)
RECURSIVE SubEach(_, _, _, _, _)
SubEach(ms, repl, s, k, from) ==
  IF k > Len(ms) THEN SubSeq(s, from, Len(s))
  ELSE SubSeq(s, from, ms[k].start - 1) \o repl \o SubEach(ms, repl, s, k + 1, ms[k].end)

re_sub(p, repl, s) ==
  IF s = "" THEN "" ELSE SubEach(re_finditer(p, s), repl, s, 1, 1)

WS == Cls(Whitespace, "*")

(***************************************************************************)
(* html.unescape, for named references.  Entities is html.entities.html5   *)
(* cut to the names the inputs can spell; no input holds "&#".             *)
(***************************************************************************)
Entities == [n \in {"lt;", "lt", "gt;", "gt", "amp;", "amp", "nbsp;", "nbsp"} |->
               CASE n \in {"lt;", "lt"}   -> "<"
                 [] n \in {"gt;", "gt"}   -> ">"
                 [] n \in {"amp;", "amp"} -> "&"
                 [] OTHER                 -> NBSP]

\* &([^\t\n\f <&#;]{1,32};?): the named branch of html's _charref (no run of
\* the inputs is longer than 32)
CharRefRe == <<Lit("&"), Mark(1), NotCls({"\t", "\n", "\f", " ", "<", "&", "#", ";"}, "+"),
               Cls({";"}, "?"), Mark(2)>>

\* html.unescape's replace_charref for the captured name t
replace_charref(t) ==
  IF t \in DOMAIN Entities THEN Entities[t]
  ELSE LET xs == {x \in 2..(Len(t) - 1) : SubSeq(t, 1, x) \in DOMAIN Entities} IN
       IF xs # {}
         THEN Entities[SubSeq(t, 1, SetMax(xs))] \o SubSeq(t, SetMax(xs) + 1, Len(t))
         ELSE "&" \o t

RECURSIVE UnescapeEach(_, _, _, _)
UnescapeEach(ms, s, k, from) ==
  IF k > Len(ms) THEN SubSeq(s, from, Len(s))
  ELSE SubSeq(s, from, ms[k].start - 1) \o replace_charref(Group(s, ms[k], 1))
         \o UnescapeEach(ms, s, k + 1, ms[k].end)

\* html.unescape(s)
unescape(s) ==
  IF ~Contains(s, "&") THEN s ELSE UnescapeEach(re_finditer(CharRefRe, s), s, 1, 1)

(***************************************************************************)
(* build_seo_manifest.py                                                   *)
(***************************************************************************)
ScriptRe == <<Lit("<script"), NotCls({}, "*?"), Lit("</script>")>>
StyleRe  == <<Lit("<style"), NotCls({}, "*?"), Lit("</style>")>>
TagRe    == <<Lit("<"), NotCls({">"}, "+"), Lit(">")>>
SpacesRe == <<Cls(Whitespace, "+")>>

\* strip_tags, lines 24-32
strip_tags(h) ==
  LET h1   == re_sub(ScriptRe, "", h)
      h2   == re_sub(StyleRe, "", h1)
      text == re_sub(TagRe, " ", h2)
  IN  unescape(Strip(re_sub(SpacesRe, " ", text)))

TitleRe == <<Lit("<title>"), Mark(1), NotCls({}, "*?"), Mark(2), Lit("</title>")>>

\* extract_between, lines 19-21
extract_between(p, text) ==
  LET m == re_search(p, text) IN
  IF m # <<>> THEN Strip(Group(text, m[1], 1)) ELSE ""

CharsetRe ==
  <<Lit("<meta"), NotCls({">"}, "*"), Lit("charset"), WS, Lit("="), WS,
    Cls({"\""}, "?"), Mark(1), NotCls(Whitespace \cup {"\"", "/", ">"}, "+"), Mark(2),
    Cls({"\""}, "?")>>

NameRe(name) ==
  <<Lit("<meta"), NotCls({">"}, "*"), Lit("name"), WS, Lit("="), WS,
    Cls({"\""}, "?"), Lit(name), Cls({"\""}, "?"), NotCls({">"}, "*"),
    Lit("content"), WS, Lit("="), WS, Lit("\""), Mark(1), NotCls({"\""}, "*"), Mark(2),
    Lit("\"")>>

CanonicalRe ==
  <<Lit("<link"), NotCls({">"}, "*"), Lit("rel"), WS, Lit("="), WS,
    Cls({"\""}, "?"), Lit("canonical"), Cls({"\""}, "?"), NotCls({">"}, "*"),
    Lit("href"), WS, Lit("="), WS, Lit("\""), Mark(1), NotCls({"\""}, "+"), Mark(2),
    Lit("\"")>>

MetaNames == <<"description", "keywords", "robots">>

\* extract_metas, lines 35-50: the dict metas
extract_metas(h) ==
  LET c == re_search(CharsetRe, h)
      n == [i \in 1..Len(MetaNames) |-> re_search(NameRe(MetaNames[i]), h)]
      l == re_search(CanonicalRe, h)
      named(i) == IF n[i] # <<>> THEN MetaNames[i] :> Strip(Group(h, n[i][1], 1)) ELSE <<>>
  IN  (IF c # <<>> THEN "charset" :> Lower(Group(h, c[1], 1)) ELSE <<>>)
        @@ named(1) @@ named(2) @@ named(3)
        @@ (IF l # <<>> THEN "canonical" :> Strip(Group(h, l[1], 1)) ELSE <<>>)

LinkRe ==
  <<Lit("<a"), NotCls({">"}, "*"), Lit("href"), WS, Lit("="), WS, Lit("\""),
    Mark(1), NotCls({"\""}, "+"), Mark(2), Lit("\""), NotCls({">"}, "*"), Lit(">"),
    Mark(3), NotCls({}, "*?"), Mark(4), Lit("</a>")>>

AttrRe(attr) ==
  <<Lit(attr), WS, Lit("="), WS, Lit("\""), Mark(1), NotCls({"\""}, "+"), Mark(2),
    Lit("\"")>>

\* extract_links, lines 66-76
extract_links(h) ==
  LET ms == re_finditer(LinkRe, h)
      attr(tag, a) == LET m == re_search(AttrRe(a), tag) IN
                      IF m # <<>> THEN Group(tag, m[1], 1) ELSE ""
  IN  [i \in 1..Len(ms) |->
         [href   |-> Strip(Group(h, ms[i], 1)),
          anchor |-> strip_tags(Group(h, ms[i], 2)),
          rel    |-> attr(Group0(h, ms[i]), "rel"),
          target |-> attr(Group0(h, ms[i]), "target")]]

SchemeRe == <<Cls({At(LowerAlpha, i) : i \in 1..26} \cup {At(UpperAlpha, i) : i \in 1..26}, "+"),
              Lit(":")>>

\* re.match(r'^[a-zA-Z]+:', href)
HasScheme(href) == 1 \in Feasible(SchemeRe, Lower(href))[1]

\* the loop body without the `continue` that ends the absolute-URL rule
ClassifyLinkFallThrough(lists, i, l, domain) ==
  LET href == Strip(l.href)
      lower_href == Lower(href)
      int(ls) == [ls EXCEPT !.internal = Append(@, i)]
      ext(ls) == [ls EXCEPT !.external = Append(@, i)]
      rest(ls) == IF StartsWithAny(href, {"#", "/", "./", "../"}) \/ ~HasScheme(href)
                    THEN int(ls) ELSE ext(ls)
  IN  IF href = "" \/ StartsWithAny(lower_href, {"mailto:", "tel:", "javascript:"})
        THEN ext(lists)
      ELSE IF StartsWithAny(lower_href, {"http://", "https://", "//"})
        THEN rest(IF Contains(lower_href, domain) THEN int(lists) ELSE ext(lists))
      ELSE rest(lists)

\* the loop body with the domain looked up in href instead of lower_href
ClassifyLinkRawHref(lists, i, l, domain) ==
  LET href == Strip(l.href)
      lower_href == Lower(href)
      int == [lists EXCEPT !.internal = Append(@, i)]
      ext == [lists EXCEPT !.external = Append(@, i)]
  IN  IF href = "" \/ StartsWithAny(lower_href, {"mailto:", "tel:", "javascript:"})
        THEN ext
      ELSE IF StartsWithAny(lower_href, {"http://", "https://", "//"})
        THEN (IF Contains(href, domain) THEN int ELSE ext)
      ELSE IF StartsWithAny(href, {"#", "/", "./", "../"}) \/ ~HasScheme(href)
        THEN int
      ELSE ext

\* make_page_object, lines 108-126: the loop body for the link l = links[i];
\* lists holds internal_links and external_links.
ClassifyLink(lists, i, l, domain) ==
  LET href == Strip(l.href)
      lower_href == Lower(href)
      int == [lists EXCEPT !.internal = Append(@, i)]
      ext == [lists EXCEPT !.external = Append(@, i)]
  IN  IF href = "" \/ StartsWithAny(lower_href, {"mailto:", "tel:", "javascript:"})
        THEN ext
      ELSE IF StartsWithAny(lower_href, {"http://", "https://", "//"})
        THEN (IF Contains(lower_href, domain) THEN int ELSE ext)
      ELSE IF StartsWithAny(href, {"#", "/", "./", "../"}) \/ ~HasScheme(href)
        THEN int
      ELSE ext

(***************************************************************************)
(* The files the Extractor reads: sequences of fragments of markup.        *)
(***************************************************************************)
Hrefs == {" ", "mailto:a@b.c", "MAILTO:x", "tel:123", "javascript:void(0)",
          "http://stroyglobal.com/p", "HTTPS://STROYGLOBAL.COM/", "https://other.com",
          "//stroyglobal.com/page", "//other.com/x", "http://evil.com/?u=stroyglobal.com",
          "#section", "/about.htm", "./a.htm", "../a.htm", "page.htm", " /x ",
          "ftp://stroyglobal.com/f", "data:x", "a1:b", "?q=a:b", "tel", "skype:user",
          ":x"}

Anchor(href) == "<a href=\"" \o href \o "\">x</a>"

SingleLinks == {<<Anchor(h)>> : h \in Hrefs}
                 \cup {<<"<A class=\"c\" HREF = \"/x\" rel=\"nofollow\" target=\"_blank\"><b>&lt;t&gt;</b> y</A>">>,
                       <<"<a name=\"top\">x</a>">>}

SeveralHrefs == {"/a.htm", "https://other.com", "//stroyglobal.com/p"}

MetaTags == {"<meta name=\"description\" content=\"First\">",
             "<meta name=\"description\" content=\"Second\">",
             "<META NAME=\"Description\" CONTENT=\" Third &amp; \"/>",
             "<meta content=\"Early\" name=\"description\">",
             "<meta name=\"robots\" content=\"noindex\">",
             "<meta charset=\"UTF-8\">",
             "<meta http-equiv=\"Content-Type\" content=\"text/html; charset=windows-1251\">",
             "<link rel=\"canonical\" href=\"/a.htm\">",
             "<link rel=\"canonical\" href=\"/b.htm\">"}

TextPieces == {"x", " ", "<b>", "</b>", "&lt;", "&gt;", "&amp;", "&nbsp;", "lt;",
               "<script>", "</script>", "<"}

Titles == {<<"<title> A &amp; B </title>">>, <<"<title><b>&lt;</b></title><title>2</title>">>,
           <<"<TITLE></TITLE>">>}

\* The sequences of 1..n fragments from S.
RECURSIVE SeqsUpTo(_, _)
SeqsUpTo(S, n) ==
  IF n = 0 THEN {}
  ELSE LET shorter == SeqsUpTo(S, n - 1)
       IN  {<<x>> : x \in S} \cup shorter \cup {Append(q, x) : q \in shorter, x \in S}

Files ==
  SingleLinks \cup SeqsUpTo({Anchor(h) : h \in SeveralHrefs}, MaxLinks)
    \cup SeqsUpTo(MetaTags, MaxTags) \cup SeqsUpTo(TextPieces, MaxPieces) \cup Titles
    \cup {<<>>}

SiteDomains == {"stroyglobal.com", "other.com"}

RECURSIVE Join(_)
Join(ps) == IF ps = <<>> THEN "" ELSE Head(ps) \o Join(Tail(ps))

(***************************************************************************)
(* make_page_object, step by step.                                         *)
(***************************************************************************)
\* lines 98-99
ExtractTitle ==
  /\ bpc = "start"
  /\ title' = extract_between(TitleRe, html)
  /\ bpc' = "metas"
  /\ UNCHANGED <<parts, html, site_domain, metas, links, internal_links,
                 external_links, li, stripped, restripped, vvars>>

\* line 100
ExtractMetas ==
  /\ bpc = "metas"
  /\ metas' = extract_metas(html)
  /\ bpc' = "links"
  /\ UNCHANGED <<parts, html, site_domain, title, links, internal_links,
                 external_links, li, stripped, restripped, vvars>>

\* lines 102, 105-106
ExtractLinks ==
  /\ bpc = "links"
  /\ links' = extract_links(html)
  /\ internal_links' = <<>> /\ external_links' = <<>> /\ li' = 0
  /\ bpc' = "loop"
  /\ UNCHANGED <<parts, html, site_domain, title, metas, stripped, restripped, vvars>>

\* lines 107-126: one iteration of `for l in links`
ClassifyNext ==
  /\ bpc = "loop" /\ li < Len(links)
  /\ LET r == ClassifyLink([internal |-> internal_links, external |-> external_links],
                           li + 1, links[li + 1], site_domain)
     IN  internal_links' = r.internal /\ external_links' = r.external
  /\ li' = li + 1
  /\ UNCHANGED <<bpc, parts, html, site_domain, title, metas, links, stripped,
                 restripped, vvars>>

\* lines 128-148: the page object is returned; 'title': strip_tags(title) if title else ''
ReturnPage ==
  /\ bpc = "loop" /\ li = Len(links)
  /\ title' = IF title # "" THEN strip_tags(title) ELSE ""
  /\ bpc' = "done"
  /\ UNCHANGED <<parts, html, site_domain, metas, links, internal_links,
                 external_links, li, stripped, restripped, vvars>>

\* strip_tags applied to the file's markup
StripTags ==
  /\ bpc = "done"
  /\ stripped' = strip_tags(html)
  /\ bpc' = "stripped"
  /\ UNCHANGED <<parts, html, site_domain, title, metas, links, internal_links,
                 external_links, li, restripped, vvars>>

\* strip_tags applied to its own output
StripAgain ==
  /\ bpc = "stripped"
  /\ restripped' = strip_tags(stripped)
  /\ bpc' = "restripped"
  /\ UNCHANGED <<parts, html, site_domain, title, metas, links, internal_links,
                 external_links, li, stripped, vvars>>

(***************************************************************************)
(* Specifications.                                                         *)
(***************************************************************************)
ValidatorIdle ==
  /\ pc = "idle" /\ line_num = 0 /\ consumed = <<>> /\ issues = <<>>
  /\ seen_paths = {} /\ page_count = 0 /\ out = <<>>

BuilderIdle ==
  /\ bpc = "idle" /\ parts = <<>> /\ html = "" /\ site_domain = "" /\ title = ""
  /\ metas = <<>> /\ links = <<>> /\ internal_links = <<>>
  /\ external_links = <<>> /\ li = 0 /\ stripped = "" /\ restripped = ""

\* main, lines 28-30
Init ==
  /\ pc = "loop" /\ line_num = 0 /\ consumed = <<>>
  /\ issues = <<>> /\ seen_paths = {} /\ page_count = 0 /\ out = <<>>
  /\ BuilderIdle

Rows == 1..Len(ManifestLines)

Next ==
  \/ \E r \in Rows : SkipBlank(r)
  \/ \E r \in Rows : NotADict(r)
  \/ \E r \in Rows : AppendError(r)
  \/ \E r \in Rows : ValidateSite(r)
  \/ \E r \in Rows : ValidateContent(r)
  \/ \E r \in Rows : ValidatePage(r)
  \/ \E r \in Rows : PageRaises(r)
  \/ \E r \in Rows : UnknownType(r)
  \/ PrintSummary

Spec == Init /\ [][Next]_vars

\* make_page_object is called on a file, lines 96-98
InitBuild ==
  /\ bpc = "start"
  /\ parts \in Files /\ html = Join(parts)
  /\ site_domain \in SiteDomains
  /\ title = "" /\ metas = <<>> /\ links = <<>> /\ internal_links = <<>>
  /\ external_links = <<>> /\ li = 0 /\ stripped = "" /\ restripped = ""
  /\ ValidatorIdle

NextBuild ==
  \/ ExtractTitle \/ ExtractMetas \/ ExtractLinks \/ ClassifyNext
  \/ ReturnPage \/ StripTags \/ StripAgain

SpecBuild == InitBuild /\ [][NextBuild]_vars

(***************************************************************************)
(* Properties of the Validator (specification Spec).                       *)
(***************************************************************************)
\* how often x occurs in the list seq
Count(seq, x) == Cardinality({k \in DOMAIN seq : seq[k] = x})

Range(seq) == {seq[k] : k \in DOMAIN seq}

\* the run has not been ended by an exception
Running == pc \in {"loop", "done"}

\* what the manifest holds at line n
RowAt(n) == ManifestLines[consumed[n]]

\* a non-blank line that is no JSON text
Malformed(row) == Strip(row.text) # "" /\ row.val = <<>>

\* a line that holds a JSON object, and its "type"
IsRecord(row) == row.val # <<>> /\ IsObj(row.val[1])
TypeOf(row) == Get(row.val[1], "type", PyNone)
IsPageRecord(row) == IsRecord(row) /\ EqStr(TypeOf(row), "page")

\* a page record whose "path" is the string p
CarriesPath(row, p) ==
  /\ IsPageRecord(row)
  /\ HasKey(row.val[1], "path")
  /\ EqStr(row.val[1].f["path"], p)

PathsCarried ==
  {ManifestLines[r].val[1].f["path"].s :
     r \in {q \in Rows : /\ IsPageRecord(ManifestLines[q])
                         /\ HasKey(ManifestLines[q].val[1], "path")
                         /\ IsStr(ManifestLines[q].val[1].f["path"])}}

ParseErrorIssue(n, row) == Str("JSON parse error at line " \o Dec(n) \o ": " \o row.err)

\* C1: a non-blank line that fails to parse as JSON adds exactly one issue, which
\* carries the 1-based number of that line, changes neither the page count nor
\* the set of seen paths, and leaves the Validator in its loop over the lines.
C1_ParseErrorRecorded ==
  [][\A r \in Rows :
       (consumed' = Append(consumed, r) /\ Malformed(ManifestLines[r]))
         => /\ issues' = Append(issues, ParseErrorIssue(Len(consumed) + 1, ManifestLines[r]))
            /\ page_count' = page_count
            /\ seen_paths' = seen_paths
            /\ pc' = "loop"]_vars

\* a blank line, a malformed line reported as line 2, and a page handled after it
C1_Witness ==
  /\ consumed = <<1, 2, 13>>
  /\ pc = "loop"
  /\ issues = <<ParseErrorIssue(2, ManifestLines[2])>>
  /\ page_count = 1

\* C2: whatever the lines of the manifest are, no exception ends the run.
C2_NeverAborts == pc # "aborted"

DuplicateIssue(n, p) == Str(Line(n) \o ": duplicate page.path " \o p)

\* C3: for every path p and every line n whose page record carries p, the issues
\* hold the duplicate issue of line n for p exactly once if an earlier line
\* carries p, and not at all if line n is the first occurrence of p.
C3_DuplicatesFlagged ==
  Running =>
    \A n \in 1..Len(consumed) : \A p \in PathsCarried :
      CarriesPath(RowAt(n), p) =>
        Count(issues, DuplicateIssue(n, p)) =
          IF \E m \in 1..(n - 1) : CarriesPath(RowAt(m), p) THEN 1 ELSE 0

\* C4: the summary's issuesCount is the number of all the issues recorded, and
\* the printed issues are the first min(200, total) of them, in order.
C4_SummaryCountsAllIssues ==
  pc = "done" =>
    /\ out[1].summary.issuesCount = Len(issues)
    /\ out[1].issues = SubSeq(issues, 1, IF Len(issues) < 200 THEN Len(issues) ELSE 200)

\* a report of more than 200 issues
C4_Witness ==
  /\ pc = "done"
  /\ Len(issues) > 200
  /\ Len(out[1].issues) = 200
  /\ out[1].summary.issuesCount > 200

\* a page record whose images are objects with "src" and "alt" absent or strings
WellFormedImages(row) ==
  /\ IsPageRecord(row)
  /\ HasKey(row.val[1], "images")
  /\ row.val[1].f["images"].jt = "arr"
  /\ \A img \in Range(row.val[1].f["images"].a) :
       /\ IsObj(img)
       /\ \A key \in {"src", "alt"} : HasKey(img, key) => IsStr(img.f[key])

\* the attribute of an image after trimming, "" when it is missing
Trimmed(img, key) == IF HasKey(img, key) THEN Strip(img.f[key].s) ELSE ""

PathOf(row) == Get(row.val[1], "path", Str("")).s

EmptySrcIssue(n, path) == Str(Line(n) \o ": empty image src at " \o path)
MissingAltIssue(n, src, path) ==
  Str(Line(n) \o ": missing alt for image " \o src \o " at " \o path)

\* C9: for the page record of every line n, the issues hold one empty-src issue
\* for each image whose src is missing or empty after trimming and, independently,
\* one missing-alt issue for each image whose alt is missing or empty after trimming.
C9_ImageChecks ==
  Running =>
    \A n \in 1..Len(consumed) :
      WellFormedImages(RowAt(n)) =>
        LET imgs == RowAt(n).val[1].f["images"].a
            path == PathOf(RowAt(n))
            src  == [i \in DOMAIN imgs |-> Trimmed(imgs[i], "src")]
            alt  == [i \in DOMAIN imgs |-> Trimmed(imgs[i], "alt")]
        IN  /\ Count(issues, EmptySrcIssue(n, path))
                 = Cardinality({i \in DOMAIN imgs : src[i] = ""})
            /\ \A s \in Range(src) :
                 Count(issues, MissingAltIssue(n, s, path))
                   = Cardinality({i \in DOMAIN imgs : src[i] = s /\ alt[i] = ""})

IsDuplicateIssue(x) ==
  IsStr(x) /\ \E n \in 1..MaxLines : StartsWith(x.s, Line(n) \o ": duplicate page.path ")

DuplicateIssues == Cardinality({k \in DOMAIN issues : IsDuplicateIssue(issues[k])})

\* a parse-error line, or a record whose type is not "page"
NonPage(row) == Malformed(row) \/ (IsRecord(row) /\ ~EqStr(TypeOf(row), "page"))

\* C10: after every prefix of the manifest, uniquePaths <= pages, and
\* pages - uniquePaths is the number of duplicate-path issues recorded so far;
\* a parse-error line and a record of a type other than page change neither
\* the page count nor the set of seen paths.
C10_Counters ==
  /\ [](Running => /\ Cardinality(seen_paths) <= page_count
                   /\ page_count - Cardinality(seen_paths) = DuplicateIssues)
  /\ [][\A r \in Rows :
          (consumed' = Append(consumed, r) /\ NonPage(ManifestLines[r]))
            => (page_count' = page_count /\ seen_paths' = seen_paths)]_vars

\* two pages of the same path around a site record
C10_Witness ==
  /\ consumed = <<13, 7, 14>>
  /\ pc = "loop"
  /\ page_count = 2
  /\ Cardinality(seen_paths) = 1
  /\ DuplicateIssues = 1

(***************************************************************************)
(* Properties of the Extractor (specification SpecBuild).                  *)
(***************************************************************************)
Increasing(seq) == \A i, j \in DOMAIN seq : i < j => seq[i] < seq[j]

\* extract_links has run
LinksExtracted == bpc \in {"loop", "done", "stripped", "restripped"}

\* the file is a sequence of anchors, and the href of an anchor
AnchorsOnly == \A i \in DOMAIN parts : \E h \in Hrefs \cup SeveralHrefs : parts[i] = Anchor(h)
HrefOf(part) == CHOOSE h \in Hrefs \cup SeveralHrefs : part = Anchor(h)

\* C5: every link the classification loop has handled is in exactly one of
\* internal_links and external_links, each list keeps the order of links, and
\* links holds the anchors of the file in the order of the markup.
C5_LinksPartitioned ==
  LinksExtracted =>
    /\ Range(internal_links) \cap Range(external_links) = {}
    /\ Range(internal_links) \cup Range(external_links) = 1..li
    /\ Len(internal_links) + Len(external_links) = li
    /\ Increasing(internal_links) /\ Increasing(external_links)
    /\ bpc # "loop" => li = Len(links)
    /\ AnchorsOnly =>
         /\ Len(links) = Len(parts)
         /\ \A i \in DOMAIN parts : links[i].href = Strip(HrefOf(parts[i]))

\* an internal link followed by an external one
C5_Witness ==
  /\ bpc = "done"
  /\ Len(links) = 2
  /\ internal_links = <<1>>
  /\ external_links = <<2>>

\* href begins with letters followed by a colon
LetterScheme(h) ==
  \E k \in 2..Len(h) :
    At(h, k) = ":" /\ \A j \in 1..(k - 1) : At(h, j) \in Lowers \cup Uppers

\* the four rules, the first that applies deciding
RuleInternal(h, d) ==
  IF h = "" \/ \E p \in {"mailto:", "tel:", "javascript:"} : StartsWith(Lower(h), p)
    THEN FALSE
  ELSE IF \E p \in {"http://", "https://", "//"} : StartsWith(Lower(h), p)
    THEN Contains(Lower(h), d)
  ELSE (\E p \in {"#", "/", "./", "../"} : StartsWith(h, p)) \/ ~LetterScheme(h)

\* C6: every classified link is internal exactly when the first applicable rule
\* says so, and external otherwise; "//stroyglobal.com/page" under the domain
\* "stroyglobal.com" and "#section" are internal, "https://other.com" under
\* that domain and "" are external.
C6_FirstRuleDecides ==
  LinksExtracted =>
    \A i \in 1..li :
      LET h   == links[i].href
          int == i \in Range(internal_links)
          ext == i \in Range(external_links)
      IN  /\ int <=> RuleInternal(h, site_domain)
          /\ ext <=> ~RuleInternal(h, site_domain)
          /\ (h = "//stroyglobal.com/page" /\ site_domain = "stroyglobal.com") => int
          /\ h = "#section" => int
          /\ (h = "https://other.com" /\ site_domain = "stroyglobal.com") => ext
          /\ h = "" => ext

\* an absolute URL in upper case that names the site's domain
C6_Witness ==
  /\ bpc = "done"
  /\ site_domain = "stroyglobal.com"
  /\ Len(links) = 1
  /\ links[1].href = "HTTPS://STROYGLOBAL.COM/"
  /\ internal_links = <<1>>

\* C7: strip_tags applied to its own output returns that output.
C7_StripTagsIdempotent == bpc = "restripped" => restripped = stripped

MetaKeys == {"charset", "description", "keywords", "robots", "canonical"}

\* the file is a sequence of meta and link tags
TagsOnly == parts # <<>> /\ \A i \in DOMAIN parts : parts[i] \in MetaTags

\* C8: metas holds recognized keys only, one value each; when the file is a
\* sequence of tags, the value of a key is the value of the first tag that
\* matches the key, and the key is absent when no tag matches it.
C8_FirstTagWins ==
  bpc = "links" =>
    /\ DOMAIN metas \subseteq MetaKeys
    /\ TagsOnly =>
         \A key \in MetaKeys :
           LET hits == {t \in DOMAIN parts : key \in DOMAIN extract_metas(parts[t])} IN
           IF hits = {} THEN key \notin DOMAIN metas
           ELSE /\ key \in DOMAIN metas
                /\ metas[key] = extract_metas(parts[SetMin(hits)])[key]

\* two description tags: the value of the first is returned
C8_Witness ==
  /\ bpc = "links"
  /\ parts = <<"<meta name=\"description\" content=\"First\">",
               "<meta name=\"description\" content=\"Second\">">>
  /\ DOMAIN metas = {"description"}
  /\ metas["description"] = "First"
====
